---- MODULE Spec2Model ----
(***************************************************************************)
(* The exonum auction service: the ledger (wallets, lots, bid histories)   *)
(* with the three transactions of src/src/tx.rs executed one at a time on  *)
(* a fork, and the blocking submission path of src/src/api.rs.             *)
(*                                                                         *)
(* u64 values.  A u64 value v is written as the integer r with r = v when  *)
(* v < 2^63 and r = v - 2^64 otherwise, so a value that wrapped below zero *)
(* by n is written -n (it stands for 2^64 - n).  Wrapping addition and     *)
(* subtraction are then the integer ones, and the unsigned order puts      *)
(* every negative r above every non-negative one.  The writing is exact    *)
(* while magnitudes stay below 2^63, which the bounds below ensure.        *)
(***************************************************************************)
EXTENDS Integers, Sequences, FiniteSets, TLC

\* ---------------------------------------------------------------- bounds
NumKeys == 3
MaxTx == 6
MaxAmount == 3
MinBid == 2
LowBalance == 2
HighBalance == 5
NumCallers == 2
MaxHeight == 2
MaxWire == 2
ShortTx == 5

Keys == 1..NumKeys
Hashes == 1..MaxTx
Amounts == 1..MaxAmount
MinBids == {MinBid}
Balances == {LowBalance, HighBalance}
Names == {"phobos"}
Callers == 1..NumCallers
\* the names and keys of the specification that tells names apart
TwoNames == {"phobos", "deimos"}
TwoKeys == {k \in Keys : k <= 2}

VARIABLES
    wallets,          \* ProofMapIndex "auction.wallets": PublicKey -> Wallet
    lots,             \* ProofMapIndex "auction.lots": Hash -> Lot
    bid_history,      \* ProofListIndex family "auction.bid_history": Hash -> list of Bid
    executed,         \* number of transactions the host has executed so far
    last,             \* kind, hash and recorded status of the transaction executed last
    initial_balance,  \* history: the balance each wallet was created with
    overflow_checks,  \* the build: TRUE panics on u64 overflow, FALSE wraps
    BLOCK_PS,         \* the static Option<PubSub>: 0 is None, n the n-th PubSub wire made
    pool,             \* transactions handed to the host and not yet in a block
    blocks,           \* blocks[h]: the transactions of the block sealed at height h
    notify,           \* height whose after_commit call is due, 0 when none is
    pc,               \* where each caller of post_transaction_sync stands
    sub,              \* the PubSub each caller's subscription is registered with, 0 when none
    queue,            \* the heights waiting in each caller's subscription
    got,              \* the height each caller received last
    ret               \* the height each caller returned

ledger_vars == <<wallets, lots, bid_history, executed, last, initial_balance, overflow_checks>>
api_vars == <<BLOCK_PS, pool, blocks, notify, pc, sub, queue, got, ret>>
vars == <<ledger_vars, api_vars>>

\* ---------------------------------------------------------------- u64
U64Lt(a, b) == IF (a < 0) = (b < 0) THEN a < b ELSE b < 0
U64Leq(a, b) == a = b \/ U64Lt(a, b)
U64Geq(a, b) == U64Leq(b, a)
U64Gt(a, b) == U64Lt(b, a)
\* a - b leaves the u64 range
SubOverflows(a, b) == U64Lt(a, b)
\* a + b leaves the u64 range
AddOverflows(a, b) ==
    \/ a < 0 /\ b < 0
    \/ a < 0 /\ b >= 0 /\ a + b >= 0
    \/ b < 0 /\ a >= 0 /\ a + b >= 0
\* the value stands for one above 2^63: no sum of the inputs reaches it
Wrapped(a) == a < 0

\* ---------------------------------------------------------------- schema.rs
Wallet_new(pub_key, name, balance, frozen) ==
    [pub_key |-> pub_key, name |-> name, balance |-> balance, frozen |-> frozen]

Lot_new(owner, name, min_bid, tx_hash) ==
    [owner |-> owner, name |-> name, min_bid |-> min_bid, tx_hash |-> tx_hash]

Bid_new(owner, amount, tx_hash) ==
    [owner |-> owner, amount |-> amount, tx_hash |-> tx_hash]

Put(map, key, value) ==
    [k \in (DOMAIN map) \cup {key} |-> IF k = key THEN value ELSE map[k]]

\* Mutant of freeze_allowed: a balance equal to the amount is not enough.
freeze_allowed_strict(self, amount) == U64Gt(self.balance - self.frozen, amount)

\* The test of Wallet::freeze (line 59), on the difference the build computed.
freeze_allowed(self, amount) == U64Geq(self.balance - self.frozen, amount)

\* Wallet::freeze.  status is "Ok", "Err" (InsufficientCurrencyAmount) or
\* "Panic" (an overflow in a build with overflow checks); fault tells that
\* an operation left the u64 range and wrapped.
freeze(self, amount, checks) ==
    LET f1 == SubOverflows(self.balance, self.frozen)
        f2 == SubOverflows(self.balance, amount) \/ AddOverflows(self.frozen, amount)
    IN  IF checks /\ f1
        THEN [status |-> "Panic", wallet |-> self, fault |-> TRUE]
        ELSE IF freeze_allowed(self, amount)
             THEN IF checks /\ f2
                  THEN [status |-> "Panic", wallet |-> self, fault |-> TRUE]
                  ELSE [status |-> "Ok",
                        wallet |-> Wallet_new(self.pub_key, self.name,
                                              self.balance - amount, self.frozen + amount),
                        fault |-> f1 \/ f2]
             ELSE [status |-> "Err", wallet |-> self, fault |-> f1]

\* Mutant of release: the escrow of a superseded bid stays frozen.
release_nothing(self, amount, checks) ==
    [status |-> "Ok", wallet |-> self, fault |-> FALSE]

\* Mutant of release: the escrow is unfrozen and not credited to the balance.
release_keeps_balance(self, amount, checks) ==
    LET actual_amount == IF U64Leq(self.frozen, amount) THEN self.frozen ELSE amount
    IN  [status |-> "Ok",
         wallet |-> Wallet_new(self.pub_key, self.name,
                               self.balance, self.frozen - actual_amount),
         fault |-> FALSE]

\* Mutant of release: the amount is credited to the balance and stays frozen.
release_keeps_frozen(self, amount, checks) ==
    LET actual_amount == IF U64Leq(self.frozen, amount) THEN self.frozen ELSE amount
    IN  [status |-> "Ok",
         wallet |-> Wallet_new(self.pub_key, self.name,
                               self.balance + actual_amount, self.frozen),
         fault |-> FALSE]

\* Wallet::release
release(self, amount, checks) ==
    LET actual_amount == IF U64Leq(self.frozen, amount) THEN self.frozen ELSE amount
        f == AddOverflows(self.balance, actual_amount) \/ SubOverflows(self.frozen, actual_amount)
    IN  IF checks /\ f
        THEN [status |-> "Panic", wallet |-> self, fault |-> TRUE]
        ELSE [status |-> "Ok",
              wallet |-> Wallet_new(self.pub_key, self.name,
                                    self.balance + actual_amount, self.frozen - actual_amount),
              fault |-> f]

\* Schema::last_bid: an Option, written as a set of at most one bid
last_bid(fork, id) ==
    IF id \in DOMAIN fork.lots /\ Len(fork.bid_history[id]) > 0
    THEN {fork.bid_history[id][Len(fork.bid_history[id])]}
    ELSE {}

\* ProofMapIndex::merkle_root: a digest of the entries of the map, the same
\* for the same entries and, hashes colliding nowhere, for no others.
merkle_root(map) == {<<k, map[k]>> : k \in DOMAIN map}

\* Mutant of state_hash: the lots and the bids enter the digest.
state_hash_of_all(fork) ==
    <<merkle_root(fork.wallets), merkle_root(fork.lots), merkle_root(fork.bid_history)>>

\* Schema::state_hash
state_hash(fork) == <<merkle_root(fork.wallets)>>

create_wallet(fork, key, name, balance) ==
    [fork EXCEPT !.wallets = Put(fork.wallets, key, Wallet_new(key, name, balance, 0))]

\* Mutant of create_lot: the owner pays min_bid for the lot.
create_lot_charges_owner(fork, owner, name, min_bid, hash) ==
    LET w == fork.wallets[owner]
    IN  [fork EXCEPT
            !.lots = Put(fork.lots, hash, Lot_new(owner, name, min_bid, hash)),
            !.wallets = Put(fork.wallets, owner,
                            Wallet_new(w.pub_key, w.name, w.balance - min_bid, w.frozen))]

create_lot(fork, owner, name, min_bid, hash) ==
    [fork EXCEPT !.lots = Put(fork.lots, hash, Lot_new(owner, name, min_bid, hash))]

\* Mutant of bid_too_low: a bid equal to the active bid passes.
bid_too_low_strict(amount, bid) == U64Lt(amount, bid.amount)

\* The comparison of Schema::place_bid with the active bid (line 181).
bid_too_low(amount, bid) == U64Leq(amount, bid.amount)

\* The bid Schema::place_bid appends (line 198): its third field is the
\* `lot` argument.
new_bid(owner, amount, lot) == Bid_new(owner, amount, lot)

\* The first half of Schema::place_bid (lines 177-191): the comparison with
\* the active bid and the release of its owner.  "Continue" goes on to the
\* freeze.
place_bid_release(fork, lot, amount, checks) ==
    LET lb == last_bid(fork, lot)
    IN  IF lb = {} THEN [result |-> "Continue", fork |-> fork, fault |-> FALSE]
        ELSE LET bid == CHOOSE b \in lb : TRUE
             IN  IF bid.owner \notin DOMAIN fork.wallets
                 THEN [result |-> "Continue", fork |-> fork, fault |-> FALSE]
                 ELSE IF bid_too_low(amount, bid)
                      THEN [result |-> "BidTooLow", fork |-> fork, fault |-> FALSE]
                      ELSE LET rel == release(fork.wallets[bid.owner], bid.amount, checks)
                           IN  IF rel.status = "Panic"
                               THEN [result |-> "Panic", fork |-> fork, fault |-> TRUE]
                               ELSE [result |-> "Continue",
                                     fork |-> [fork EXCEPT
                                         !.wallets = Put(fork.wallets, bid.owner, rel.wallet)],
                                     fault |-> rel.fault]

\* Mutant of place_bid_freeze: a bidder without a wallet is reported as
\* WalletNotFound.
place_bid_freeze_wallet_not_found(fork, owner, lot, amount, checks) ==
    IF owner \notin DOMAIN fork.wallets
    THEN [result |-> "WalletNotFound", fork |-> fork, fault |-> FALSE]
    ELSE LET fr == freeze(fork.wallets[owner], amount, checks)
         IN  IF fr.status = "Panic"
             THEN [result |-> "Panic", fork |-> fork, fault |-> TRUE]
             ELSE IF fr.status = "Err"
                  THEN [result |-> "InsufficientCurrencyAmount", fork |-> fork,
                        fault |-> fr.fault]
                  ELSE [result |-> "Ok",
                        fork |-> [fork EXCEPT
                            !.bid_history[lot] = Append(@, new_bid(owner, amount, lot)),
                            !.wallets = Put(fork.wallets, owner, fr.wallet)],
                        fault |-> fr.fault]

\* Mutant of place_bid_freeze: the new bid replaces the bids of the lot.
place_bid_freeze_overwrites(fork, owner, lot, amount, checks) ==
    IF owner \notin DOMAIN fork.wallets
    THEN [result |-> "InsufficientCurrencyAmount", fork |-> fork, fault |-> FALSE]
    ELSE LET fr == freeze(fork.wallets[owner], amount, checks)
         IN  IF fr.status = "Panic"
             THEN [result |-> "Panic", fork |-> fork, fault |-> TRUE]
             ELSE IF fr.status = "Err"
                  THEN [result |-> "InsufficientCurrencyAmount", fork |-> fork,
                        fault |-> fr.fault]
                  ELSE [result |-> "Ok",
                        fork |-> [fork EXCEPT
                            !.bid_history[lot] = <<new_bid(owner, amount, lot)>>,
                            !.wallets = Put(fork.wallets, owner, fr.wallet)],
                        fault |-> fr.fault]

\* The second half of Schema::place_bid (lines 193-201), on the fork the
\* first half left.
place_bid_freeze(fork, owner, lot, amount, checks) ==
    IF owner \notin DOMAIN fork.wallets
    THEN [result |-> "InsufficientCurrencyAmount", fork |-> fork, fault |-> FALSE]
    ELSE LET fr == freeze(fork.wallets[owner], amount, checks)
         IN  IF fr.status = "Panic"
             THEN [result |-> "Panic", fork |-> fork, fault |-> TRUE]
             ELSE IF fr.status = "Err"
                  THEN [result |-> "InsufficientCurrencyAmount", fork |-> fork,
                        fault |-> fr.fault]
                  ELSE [result |-> "Ok",
                        fork |-> [fork EXCEPT
                            !.bid_history[lot] = Append(@, new_bid(owner, amount, lot)),
                            !.wallets = Put(fork.wallets, owner, fr.wallet)],
                        fault |-> fr.fault]

\* Schema::place_bid.  The fork returned with an error is the fork as the
\* code left it, the release of the previous bidder included.
place_bid(fork, owner, lot, amount, checks) ==
    LET first == place_bid_release(fork, lot, amount, checks)
    IN  IF first.result # "Continue" THEN first
        ELSE LET second == place_bid_freeze(first.fork, owner, lot, amount, checks)
             IN  [second EXCEPT !.fault = first.fault \/ second.fault]

\* ---------------------------------------------------------------- tx.rs
Errors == {"WalletAlreadyExists", "LotNotFound", "BidTooLow",
           "InsufficientCurrencyAmount", "WalletNotFound", "BiddingNotAllowedOnOwnLot"}

ErrorCode(result) ==
    CASE result = "WalletAlreadyExists" -> 0
      [] result = "LotNotFound" -> 1
      [] result = "BidTooLow" -> 2
      [] result = "InsufficientCurrencyAmount" -> 3
      [] result = "WalletNotFound" -> 4
      [] result = "BiddingNotAllowedOnOwnLot" -> 5

\* Mutant of CreateWallet_execute: an existing wallet is overwritten.
CreateWallet_execute_overwrites(fork, tx) ==
    [result |-> "Ok", fork |-> create_wallet(fork, tx.pub_key, tx.name, tx.balance),
     fault |-> FALSE]

CreateWallet_execute(fork, tx) ==
    IF tx.pub_key \notin DOMAIN fork.wallets
    THEN [result |-> "Ok", fork |-> create_wallet(fork, tx.pub_key, tx.name, tx.balance),
          fault |-> FALSE]
    ELSE [result |-> "WalletAlreadyExists", fork |-> fork, fault |-> FALSE]

\* Mutant of CreateLot_execute: the owner needs no wallet.
CreateLot_execute_any_owner(fork, tx) ==
    [result |-> "Ok", fork |-> create_lot(fork, tx.owner, tx.name, tx.min_bid, tx.hash),
     fault |-> FALSE]

CreateLot_execute(fork, tx) ==
    IF tx.owner \notin DOMAIN fork.wallets
    THEN [result |-> "WalletNotFound", fork |-> fork, fault |-> FALSE]
    ELSE [result |-> "Ok", fork |-> create_lot(fork, tx.owner, tx.name, tx.min_bid, tx.hash),
          fault |-> FALSE]

\* Mutant of PlaceBid_checks: the owner of the lot is not turned away.
PlaceBid_checks_any_owner(fork, tx) ==
    IF tx.lot \notin DOMAIN fork.lots THEN "LotNotFound"
    ELSE IF U64Gt(fork.lots[tx.lot].min_bid, tx.amount) THEN "BidTooLow"
    ELSE "Continue"

\* Mutant of PlaceBid_checks: an amount one below min_bid passes.
PlaceBid_checks_off_by_one(fork, tx) ==
    IF tx.lot \notin DOMAIN fork.lots THEN "LotNotFound"
    ELSE IF U64Gt(fork.lots[tx.lot].min_bid, tx.amount + 1) THEN "BidTooLow"
    ELSE IF fork.lots[tx.lot].owner = tx.owner THEN "BiddingNotAllowedOnOwnLot"
    ELSE "Continue"

\* Mutant of PlaceBid_checks: the amount is not compared with min_bid.
PlaceBid_checks_no_min_bid(fork, tx) ==
    IF tx.lot \notin DOMAIN fork.lots THEN "LotNotFound"
    ELSE IF fork.lots[tx.lot].owner = tx.owner THEN "BiddingNotAllowedOnOwnLot"
    ELSE "Continue"

\* Mutant of PlaceBid_checks: a missing lot is reported as BidTooLow.
PlaceBid_checks_missing_lot_too_low(fork, tx) ==
    IF tx.lot \notin DOMAIN fork.lots THEN "BidTooLow"
    ELSE IF U64Gt(fork.lots[tx.lot].min_bid, tx.amount) THEN "BidTooLow"
    ELSE IF fork.lots[tx.lot].owner = tx.owner THEN "BiddingNotAllowedOnOwnLot"
    ELSE "Continue"

\* Mutant of PlaceBid_checks: the owners are compared before the amount is
\* compared with min_bid.
PlaceBid_checks_owner_first(fork, tx) ==
    IF tx.lot \notin DOMAIN fork.lots THEN "LotNotFound"
    ELSE IF fork.lots[tx.lot].owner = tx.owner THEN "BiddingNotAllowedOnOwnLot"
    ELSE IF U64Gt(fork.lots[tx.lot].min_bid, tx.amount) THEN "BidTooLow"
    ELSE "Continue"

\* The checks of PlaceBid::execute before the call of Schema::place_bid:
\* the error they end in, or "Continue".
PlaceBid_checks(fork, tx) ==
    IF tx.lot \notin DOMAIN fork.lots THEN "LotNotFound"
    ELSE IF U64Gt(fork.lots[tx.lot].min_bid, tx.amount) THEN "BidTooLow"
    ELSE IF fork.lots[tx.lot].owner = tx.owner THEN "BiddingNotAllowedOnOwnLot"
    ELSE "Continue"

PlaceBid_execute(fork, tx, checks) ==
    IF PlaceBid_checks(fork, tx) # "Continue"
    THEN [result |-> PlaceBid_checks(fork, tx), fork |-> fork, fault |-> FALSE]
    ELSE place_bid(fork, tx.owner, fork.lots[tx.lot].tx_hash, tx.amount, checks)

\* ---------------------------------------------------------------- the host
\* The ledger as a fork sees it.
Ledger == [wallets |-> wallets, lots |-> lots, bid_history |-> bid_history]

\* Mutant of Commit: the fork of a failed transaction is kept.
Commit_keeps_fork(before, outcome) == outcome.fork

\* The host keeps the fork of a transaction that returned Ok and rolls back
\* the fork of one that returned an error or panicked.
Commit(before, outcome) ==
    IF outcome.result = "Ok" THEN outcome.fork ELSE before

\* The host executed transaction tx with this outcome and recorded its
\* status.
Apply(tx, outcome) ==
    LET after == Commit(Ledger, outcome)
    IN  /\ wallets' = after.wallets
        /\ lots' = after.lots
        /\ bid_history' = after.bid_history
        /\ executed' = executed + 1
        /\ last' = [kind |-> tx.kind, hash |-> tx.hash, result |-> outcome.result,
                    fault |-> outcome.fault]

CreateWalletTx(pub_key, name, balance) ==
    [kind |-> "CreateWallet", hash |-> executed + 1,
     pub_key |-> pub_key, name |-> name, balance |-> balance]

CreateLotTx(owner, name, min_bid) ==
    [kind |-> "CreateLot", hash |-> executed + 1,
     owner |-> owner, name |-> name, min_bid |-> min_bid]

PlaceBidTx(owner, lot, amount) ==
    [kind |-> "PlaceBid", hash |-> executed + 1,
     owner |-> owner, lot |-> lot, amount |-> amount]

LedgerInit ==
    /\ wallets = <<>>
    /\ lots = <<>>
    /\ bid_history = [h \in Hashes |-> <<>>]
    /\ executed = 0
    /\ last = [kind |-> "None", hash |-> 0, result |-> "None", fault |-> FALSE]
    /\ initial_balance = <<>>
    /\ overflow_checks \in BOOLEAN

CreateWallet(pub_key, name, balance) ==
    LET tx == CreateWalletTx(pub_key, name, balance)
        outcome == CreateWallet_execute(Ledger, tx)
    IN  /\ executed < MaxTx
        /\ Apply(tx, outcome)
        /\ initial_balance' = IF outcome.result = "Ok"
                              THEN Put(initial_balance, pub_key, balance)
                              ELSE initial_balance
        /\ UNCHANGED <<overflow_checks, api_vars>>

CreateLot(owner, name, min_bid) ==
    LET tx == CreateLotTx(owner, name, min_bid)
    IN  /\ executed < MaxTx
        /\ Apply(tx, CreateLot_execute(Ledger, tx))
        /\ UNCHANGED <<initial_balance, overflow_checks, api_vars>>

PlaceBid(owner, lot, amount) ==
    LET tx == PlaceBidTx(owner, lot, amount)
    IN  /\ executed < MaxTx
        /\ Apply(tx, PlaceBid_execute(Ledger, tx, overflow_checks))
        /\ UNCHANGED <<initial_balance, overflow_checks, api_vars>>

\* The lot identifiers a PlaceBid is tried with.  PlaceBid::execute treats
\* alike all identifiers under which no lot is stored (lines 142-145); one
\* stands for them: MaxTx, the identifier of the last transaction the bound
\* admits, under which no lot is stored while a transaction can still run.
LotArgs == (DOMAIN lots) \cup {MaxTx}

LedgerNext ==
    \/ \E k \in Keys, n \in Names, b \in Balances : CreateWallet(k, n, b)
    \/ \E k \in Keys, n \in Names, m \in MinBids : CreateLot(k, n, m)
    \/ \E k \in Keys, l \in LotArgs, a \in Amounts : PlaceBid(k, l, a)

\* The first ShortTx transactions of the ledger.
ShortNext ==
    \/ \E k \in Keys, n \in Names, b \in Balances :
          executed < ShortTx /\ CreateWallet(k, n, b)
    \/ \E k \in Keys, n \in Names, m \in MinBids :
          executed < ShortTx /\ CreateLot(k, n, m)
    \/ \E k \in Keys, l \in LotArgs, a \in Amounts :
          executed < ShortTx /\ PlaceBid(k, l, a)

\* The same transactions with two display names to choose from, for two
\* keys and the first ShortTx transactions.
NamedNext ==
    \/ \E k \in TwoKeys, n \in TwoNames, b \in Balances :
          executed < ShortTx /\ CreateWallet(k, n, b)
    \/ \E k \in TwoKeys, n \in TwoNames, m \in MinBids :
          executed < ShortTx /\ CreateLot(k, n, m)
    \/ \E k \in TwoKeys, l \in LotArgs, a \in Amounts :
          executed < ShortTx /\ PlaceBid(k, l, a)

\* ---------------------------------------------------------------- api.rs
ApiInit ==
    /\ BLOCK_PS = 0
    /\ pool = {}
    /\ blocks = <<>>
    /\ notify = 0
    /\ pc = [c \in Callers |-> "idle"]
    /\ sub = [c \in Callers |-> 0]
    /\ queue = [c \in Callers |-> <<>>]
    /\ got = [c \in Callers |-> 0]
    /\ ret = [c \in Callers |-> 0]

\* Mutant of PublicApi_bid_history: the newest bid comes first.
PublicApi_bid_history_newest_first(snapshot, id) ==
    LET history == snapshot.bid_history[id]
    IN  [status |-> "Ok",
         bids |-> [i \in 1..Len(history) |-> history[Len(history) + 1 - i]]]

\* PublicApi::bid_history: the bids stored under the identifier, in index
\* order; no lookup of the lot.
PublicApi_bid_history(snapshot, id) ==
    LET history == snapshot.bid_history[id]
    IN  [status |-> "Ok", bids |-> [i \in 1..Len(history) |-> history[i]]]

\* PublicApi::wire: a new PubSub replaces the one in BLOCK_PS.  The
\* endpoints exist from the first wire on.
wire ==
    /\ BLOCK_PS < MaxWire
    /\ BLOCK_PS' = BLOCK_PS + 1
    /\ UNCHANGED <<pool, blocks, notify, pc, sub, queue, got, ret, ledger_vars>>

\* post_transaction_sync, lines 99-101: the transaction goes to the host.
\* Caller c submits the transaction with identifier c.
sync_send(c) ==
    /\ BLOCK_PS # 0
    /\ pc[c] = "idle"
    /\ pool' = pool \cup {c}
    /\ pc' = [pc EXCEPT ![c] = "sent"]
    /\ UNCHANGED <<BLOCK_PS, blocks, notify, sub, queue, got, ret, ledger_vars>>

\* post_transaction_sync, lines 104-105: subscribe to the PubSub in BLOCK_PS.
sync_subscribe(c) ==
    /\ pc[c] = "sent"
    /\ sub' = [sub EXCEPT ![c] = BLOCK_PS]
    /\ queue' = [queue EXCEPT ![c] = <<>>]
    /\ pc' = [pc EXCEPT ![c] = "waiting"]
    /\ UNCHANGED <<BLOCK_PS, pool, blocks, notify, got, ret, ledger_vars>>

\* post_transaction_sync, line 108: recv() takes the next height, blocking
\* while there is none.
sync_recv(c) ==
    /\ pc[c] = "waiting"
    /\ queue[c] # <<>>
    /\ got' = [got EXCEPT ![c] = Head(queue[c])]
    /\ queue' = [queue EXCEPT ![c] = Tail(queue[c])]
    /\ pc' = [pc EXCEPT ![c] = "checking"]
    /\ UNCHANGED <<BLOCK_PS, pool, blocks, notify, sub, ret, ledger_vars>>

\* Mutant of tx_in_block: any sealed height counts as holding the transaction.
tx_in_block_any(height, tx_hash) == height \in 1..Len(blocks)

\* Schema::block_transactions(height) on the snapshot, searched for tx_hash
\* (lines 109-113).
tx_in_block(height, tx_hash) ==
    height \in 1..Len(blocks) /\ tx_hash \in blocks[height]

\* post_transaction_sync, lines 109-116: return when the block at the height
\* received holds the transaction (the subscription is dropped), else loop.
sync_check(c) ==
    /\ pc[c] = "checking"
    /\ IF tx_in_block(got[c], c)
       THEN /\ ret' = [ret EXCEPT ![c] = got[c]]
            /\ pc' = [pc EXCEPT ![c] = "done"]
            /\ sub' = [sub EXCEPT ![c] = 0]
            /\ queue' = [queue EXCEPT ![c] = <<>>]
       ELSE /\ pc' = [pc EXCEPT ![c] = "waiting"]
            /\ UNCHANGED <<ret, sub, queue>>
    /\ UNCHANGED <<BLOCK_PS, pool, blocks, notify, got, ledger_vars>>

\* The host seals the next block with some of the pooled transactions; its
\* after_commit call is then due before the next block.
seal_block(txs) ==
    /\ notify = 0
    /\ Len(blocks) < MaxHeight
    /\ blocks' = Append(blocks, txs)
    /\ pool' = pool \ txs
    /\ notify' = Len(blocks) + 1
    /\ UNCHANGED <<BLOCK_PS, pc, sub, queue, got, ret, ledger_vars>>

\* PubSub::send: the height goes to the queue of every subscription
\* registered with this PubSub.
publish(ps, height) ==
    [c \in Callers |-> IF sub[c] = ps THEN Append(queue[c], height) ELSE queue[c]]

\* Service::after_commit -> PublicApi::sync_commit_callback(height)
sync_commit_callback ==
    /\ notify # 0
    /\ queue' = IF BLOCK_PS # 0 THEN publish(BLOCK_PS, notify) ELSE queue
    /\ notify' = 0
    /\ UNCHANGED <<BLOCK_PS, pool, blocks, pc, sub, got, ret, ledger_vars>>

ApiNext ==
    \/ wire
    \/ \E c \in Callers : sync_send(c)
    \/ \E c \in Callers : sync_subscribe(c)
    \/ \E c \in Callers : sync_recv(c)
    \/ \E c \in Callers : sync_check(c)
    \/ \E txs \in SUBSET pool : seal_block(txs)
    \/ sync_commit_callback

\* ---------------------------------------------------------------- specifications
Init == LedgerInit /\ ApiInit
Next == LedgerNext
\* the ledger under the three transactions
Spec == Init /\ [][Next]_vars
\* the first ShortTx transactions of the ledger
ShortSpec == Init /\ [][ShortNext]_vars
\* the ledger with display names told apart
NameSpec == Init /\ [][NamedNext]_vars
\* the blocking submission path
ApiSpec == Init /\ [][ApiNext]_vars
\* the same with the scheduling the threads get: a caller that can step
\* does, and the host makes the after_commit call that is due
ApiFairness ==
    /\ \A c \in Callers : WF_vars(sync_subscribe(c) \/ sync_recv(c) \/ sync_check(c))
    /\ WF_vars(sync_commit_callback)
FairApiSpec == ApiSpec /\ ApiFairness

\* ---------------------------------------------------------------- ledger claims
RECURSIVE SumOver(_, _)
SumOver(S, f) ==
    IF S = {} THEN 0
    ELSE LET x == CHOOSE y \in S : TRUE IN f[x] + SumOver(S \ {x}, f)

\* the lots whose last bid wallet k owns
LotsLedBy(k) == {l \in DOMAIN lots : \E b \in last_bid(Ledger, l) : b.owner = k}
LastAmount == [l \in DOMAIN lots |->
                  IF Len(bid_history[l]) > 0 THEN bid_history[l][Len(bid_history[l])].amount ELSE 0]

\* C1: every existing wallet holds balance + frozen equal to the balance it
\* was created with (as numbers: neither field is a wrapped value).
C1_Conservation ==
    \A k \in DOMAIN wallets :
        /\ ~Wrapped(wallets[k].balance)
        /\ ~Wrapped(wallets[k].frozen)
        /\ wallets[k].balance + wallets[k].frozen = initial_balance[k]

C3_AtomicFailure ==
    [][(last'.kind = "PlaceBid" /\ last'.hash = executed + 1
        /\ last'.result = "InsufficientCurrencyAmount")
       => (wallets' = wallets /\ bid_history' = bid_history /\ lots' = lots)]_vars

\* C3 witness: the last transaction was a PlaceBid that failed with
\* InsufficientCurrencyAmount while every lot had an active bid, so the lot
\* it named had one and its owner had been released on the fork.
C3_Witness ==
    /\ last.kind = "PlaceBid"
    /\ last.result = "InsufficientCurrencyAmount"
    /\ lots # <<>>
    /\ \A l \in DOMAIN lots : Len(bid_history[l]) > 0

\* C4: in every lot's bid sequence each bid after the first is strictly
\* greater than the bid before it (so a bid equal to the active bid is never
\* appended).
C4_MonotonicBidding ==
    \A l \in Hashes : \A i \in 2..Len(bid_history[l]) :
        U64Gt(bid_history[l][i].amount, bid_history[l][i - 1].amount)

\* C4 witness: a lot holds two bids and the last transaction was a PlaceBid
\* rejected as too low.
C4_Witness ==
    /\ \E l \in DOMAIN lots : Len(bid_history[l]) >= 2
    /\ last.kind = "PlaceBid"
    /\ last.result = "BidTooLow"

\* C8: a PlaceBid that reaches the freeze with a bidder who has a wallet
\* succeeds exactly when that wallet's balance, after the release of the
\* active bid, is at least the amount; then balance drops and frozen grows
\* by the amount.
C8_FreezeCondition ==
    [][\A k \in Keys, l \in Hashes, a \in Amounts :
          LET tx == PlaceBidTx(k, l, a)
              first == place_bid_release(Ledger, l, a, overflow_checks)
          IN  (/\ PlaceBid(k, l, a)
               /\ PlaceBid_checks(Ledger, tx) = "Continue"
               /\ first.result = "Continue"
               /\ k \in DOMAIN first.fork.wallets)
              => LET w == first.fork.wallets[k]
                 IN  /\ (last'.result = "Ok") <=> U64Geq(w.balance, a)
                     /\ (last'.result = "Ok") =>
                            /\ wallets'[k].balance = w.balance - a
                            /\ wallets'[k].frozen = w.frozen + a]_vars

\* C9: the bid a successful PlaceBid appends records the bidder, the amount
\* and the identifier of that PlaceBid transaction.
C9_BidRecordsOwnTx ==
    [][\A k \in Keys, l \in Hashes, a \in Amounts :
          (PlaceBid(k, l, a) /\ last'.result = "Ok")
          => bid_history'[l] = Append(bid_history[l], Bid_new(k, a, last'.hash))]_vars

\* C10: every transaction ends in success or in one of the six typed
\* errors, no u64 operation leaves its range, and no wallet field is a
\* wrapped value.
C10_NoPanicNoFault ==
    /\ last.result \in {"None", "Ok"} \cup Errors
    /\ ~last.fault
    /\ \A k \in DOMAIN wallets : ~Wrapped(wallets[k].balance) /\ ~Wrapped(wallets[k].frozen)

\* what PlaceBid::execute returns for a PlaceBid of k on l with amount a
\* executed next, and the ledger the host keeps after it
PlaceBidOutcome(k, l, a) == PlaceBid_execute(Ledger, PlaceBidTx(k, l, a), overflow_checks)
LedgerAfter(outcome) == Commit(Ledger, outcome)

\* C11 as stated: a PlaceBid by the owner of the lot fails with
\* BiddingNotAllowedOnOwnLot for any amount and appends no bid.
C11_OwnLotAnyAmount ==
    \A l \in DOMAIN lots, a \in Amounts :
        LET outcome == PlaceBidOutcome(lots[l].owner, l, a)
        IN  /\ outcome.result = "BiddingNotAllowedOnOwnLot"
            /\ LedgerAfter(outcome).bid_history = bid_history

\* C11: a PlaceBid by the owner of the lot fails with
\* BiddingNotAllowedOnOwnLot (code 5) for any amount of at least min_bid,
\* whatever the active bid, and with BidTooLow (code 2) for a smaller
\* amount; it appends no bid.
C11_OwnLotFromMinBid ==
    \A l \in DOMAIN lots, a \in Amounts :
        LET outcome == PlaceBidOutcome(lots[l].owner, l, a)
        IN  /\ LedgerAfter(outcome).bid_history = bid_history
            /\ U64Geq(a, lots[l].min_bid)
                  => (outcome.result = "BiddingNotAllowedOnOwnLot"
                      /\ ErrorCode(outcome.result) = 5)
            /\ U64Lt(a, lots[l].min_bid)
                  => (outcome.result = "BidTooLow" /\ ErrorCode(outcome.result) = 2)

\* C11 witness: the only lot holds an active bid and the last transaction,
\* a PlaceBid, was turned away as a bid of the owner.
C11_Witness ==
    /\ Cardinality(DOMAIN lots) = 1
    /\ \A l \in DOMAIN lots : Len(bid_history[l]) > 0
    /\ last.kind = "PlaceBid"
    /\ last.result = "BiddingNotAllowedOnOwnLot"

\* C12: a PlaceBid by another wallet than the lot's owner, with an amount
\* below min_bid or not above the active bid, fails with BidTooLow (code 2)
\* and leaves the bid sequences and the wallets as they were.
C12_LowBidRejected ==
    \A l \in DOMAIN lots : \A k \in Keys \ {lots[l].owner}, a \in Amounts :
        (\/ U64Lt(a, lots[l].min_bid)
         \/ \E b \in last_bid(Ledger, l) : U64Leq(a, b.amount))
        => LET outcome == PlaceBidOutcome(k, l, a)
           IN  /\ outcome.result = "BidTooLow"
               /\ ErrorCode(outcome.result) = 2
               /\ LedgerAfter(outcome).bid_history = bid_history
               /\ LedgerAfter(outcome).wallets = wallets

\* C12 witness: the only lot holds one bid, of the highest amount, and the
\* last transaction, a PlaceBid, was rejected as too low.
C12_Witness ==
    /\ Cardinality(DOMAIN lots) = 1
    /\ \A l \in DOMAIN lots :
          Len(bid_history[l]) = 1 /\ bid_history[l][1].amount = MaxAmount
    /\ last.kind = "PlaceBid"
    /\ last.result = "BidTooLow"

\* C13 as stated: the first bid of a lot is strictly greater than min_bid.
C13_FirstBidAboveMinBid ==
    \A l \in DOMAIN lots :
        Len(bid_history[l]) > 0 => U64Gt(bid_history[l][1].amount, lots[l].min_bid)

\* C13: the first bid of a lot is at least the lot's min_bid.
C13_FirstBidAtLeastMinBid ==
    \A l \in DOMAIN lots :
        Len(bid_history[l]) > 0 => U64Geq(bid_history[l][1].amount, lots[l].min_bid)

\* C13 witness: a lot whose first bid equals min_bid and one whose first
\* bid is above it.
C13_Witness ==
    /\ \E l \in DOMAIN lots :
          Len(bid_history[l]) > 0 /\ bid_history[l][1].amount = lots[l].min_bid
    /\ \E l \in DOMAIN lots :
          Len(bid_history[l]) > 0 /\ U64Gt(bid_history[l][1].amount, lots[l].min_bid)

\* C14: a PlaceBid of exactly min_bid on a lot without bids, by a wallet
\* that is not the owner, leads no lot and holds a balance of at least the
\* amount, succeeds: the lot's sequence has length 1 and records the bidder
\* and the amount, the balance drops by the amount and frozen equals it.
C14_MinBidOpensLot ==
    \A l \in DOMAIN lots : \A k \in (DOMAIN wallets) \ {lots[l].owner} :
        (/\ bid_history[l] = <<>>
         /\ LotsLedBy(k) = {}
         /\ U64Geq(wallets[k].balance, lots[l].min_bid))
        => LET a == lots[l].min_bid
               outcome == PlaceBidOutcome(k, l, a)
               after == LedgerAfter(outcome)
           IN  /\ outcome.result = "Ok"
               /\ after.bid_history[l] = <<new_bid(k, a, l)>>
               /\ after.bid_history[l][1].owner = k
               /\ after.bid_history[l][1].amount = a
               /\ after.wallets[k].balance = wallets[k].balance - a
               /\ after.wallets[k].frozen = a

\* C14 witness: the last transaction, a PlaceBid, succeeded; one lot holds
\* bids, a single bid of min_bid whose bidder holds a balance of 0 and that
\* amount frozen.
C14_Witness ==
    /\ last.kind = "PlaceBid"
    /\ last.result = "Ok"
    /\ \E l \in DOMAIN lots :
          /\ \A m \in DOMAIN lots : m # l => bid_history[m] = <<>>
          /\ Len(bid_history[l]) = 1
          /\ bid_history[l][1].amount = lots[l].min_bid
          /\ wallets[bid_history[l][1].owner].frozen = lots[l].min_bid
          /\ wallets[bid_history[l][1].owner].balance = 0

\* C15: when the wallet that holds the active bid of a lot, and leads no
\* other lot, bids higher on that lot, the bid succeeds if the balance the
\* wallet was created with covers the amount; after a success the sequence
\* is one longer, frozen equals the new amount and balance equals the
\* creation balance less the new amount.
C15_RaiseOwnBid ==
    \A l \in DOMAIN lots, k \in DOMAIN wallets, a \in Amounts :
        (LotsLedBy(k) = {l} /\ U64Gt(a, LastAmount[l]))
        => LET outcome == PlaceBidOutcome(k, l, a)
               after == LedgerAfter(outcome)
           IN  /\ U64Geq(initial_balance[k], a) => outcome.result = "Ok"
               /\ outcome.result = "Ok"
                     => /\ Len(after.bid_history[l]) = Len(bid_history[l]) + 1
                        /\ after.wallets[k].frozen = a
                        /\ after.wallets[k].balance = initial_balance[k] - a

\* C15 witness: the last transaction, a PlaceBid, succeeded; the last two
\* bids of the only lot are of one wallet, which has the later amount frozen.
C15_Witness ==
    /\ last.kind = "PlaceBid"
    /\ last.result = "Ok"
    /\ Cardinality(DOMAIN lots) = 1
    /\ \E l \in DOMAIN lots :
          LET n == Len(bid_history[l])
          IN  /\ n >= 2
              /\ bid_history[l][n].owner = bid_history[l][n - 1].owner
              /\ wallets[bid_history[l][n].owner].frozen = bid_history[l][n].amount

\* C16: a CreateWallet succeeds exactly when no wallet is stored for the
\* key and then stores one with the name and the balance of the transaction
\* and frozen 0; for a key that has a wallet it fails with
\* WalletAlreadyExists (code 0) and leaves every wallet, its name, balance
\* and frozen, as it was; the wallet stored under a key is the wallet of
\* that key.
C16_CreateWalletOnce ==
    [][\A k \in Keys, n \in TwoNames, b \in Balances :
          CreateWallet(k, n, b)
          => /\ k \notin DOMAIN wallets
                   => /\ last'.result = "Ok"
                      /\ wallets' = Put(wallets, k, Wallet_new(k, n, b, 0))
             /\ k \in DOMAIN wallets
                   => /\ last'.result = "WalletAlreadyExists"
                      /\ ErrorCode(last'.result) = 0
                      /\ wallets' = wallets
             /\ \A j \in DOMAIN wallets' : wallets'[j].pub_key = j]_vars

\* C16 witness: a CreateWallet was just rejected as a duplicate while the
\* two wallets carry different names and one of them has currency frozen.
C16_Witness ==
    /\ last.kind = "CreateWallet"
    /\ last.result = "WalletAlreadyExists"
    /\ \E k \in DOMAIN wallets, j \in DOMAIN wallets :
          wallets[k].name # wallets[j].name /\ wallets[k].frozen > 0

\* C17: a CreateLot succeeds exactly when a wallet is stored for the owner
\* and then inserts one lot, keyed by the hash of the transaction, that
\* holds the owner, the name, min_bid and that hash; without a wallet it
\* fails with WalletNotFound (code 4) and leaves the lots as they were.
C17_CreateLotNeedsWallet ==
    [][\A k \in Keys, n \in TwoNames, m \in MinBids :
          CreateLot(k, n, m)
          => /\ k \in DOMAIN wallets
                   => /\ last'.result = "Ok"
                      /\ last'.hash \notin DOMAIN lots
                      /\ lots' = Put(lots, last'.hash, Lot_new(k, n, m, last'.hash))
             /\ k \notin DOMAIN wallets
                   => /\ last'.result = "WalletNotFound"
                      /\ ErrorCode(last'.result) = 4
                      /\ lots' = lots]_vars

\* C17 witness: two lots with different names are stored, each under its
\* own tx_hash, and the last transaction, a CreateLot, had no owner wallet.
C17_Witness ==
    /\ last.kind = "CreateLot"
    /\ last.result = "WalletNotFound"
    /\ \E l \in DOMAIN lots, m \in DOMAIN lots :
          lots[l].name # lots[m].name /\ lots[l].tx_hash = l /\ lots[m].tx_hash = m

\* C18: a PlaceBid that names an identifier under which no lot is stored
\* fails with LotNotFound (code 1) whatever the bidder and the amount; the
\* bid sequence under that identifier stays empty and the wallets stay as
\* they were.
C18_UnknownLot ==
    \A l \in Hashes \ DOMAIN lots, k \in Keys, a \in Amounts :
        LET outcome == PlaceBidOutcome(k, l, a)
            after == LedgerAfter(outcome)
        IN  /\ outcome.result = "LotNotFound"
            /\ ErrorCode(outcome.result) = 1
            /\ bid_history[l] = <<>>
            /\ after.bid_history[l] = <<>>
            /\ after.wallets = wallets

\* C18 witness: with a lot that holds a bid in the ledger, the last
\* transaction, a PlaceBid, named a lot that does not exist.
C18_Witness ==
    /\ last.kind = "PlaceBid"
    /\ last.result = "LotNotFound"
    /\ \E l \in DOMAIN lots : Len(bid_history[l]) > 0

BidsOf(l) == PublicApi_bid_history(Ledger, l).bids

\* C21: the bid history query never fails; its answer is empty for an
\* identifier without a lot and for a lot without bids, its last element is
\* the value of last_bid, and a transaction leaves the answer as it was or
\* puts one bid behind it: the answer lists the bids in the order they were
\* appended.
C21_BidHistoryQuery ==
    /\ [](\A l \in Hashes :
            LET answer == PublicApi_bid_history(Ledger, l)
            IN  /\ answer.status = "Ok"
                /\ l \notin DOMAIN lots => answer.bids = <<>>
                /\ IF answer.bids = <<>>
                   THEN last_bid(Ledger, l) = {}
                   ELSE last_bid(Ledger, l) = {answer.bids[Len(answer.bids)]})
    /\ [][\A l \in Hashes :
            \/ BidsOf(l)' = BidsOf(l)
            \/ /\ Len(BidsOf(l)') = Len(BidsOf(l)) + 1
               /\ SubSeq(BidsOf(l)', 1, Len(BidsOf(l))) = BidsOf(l)
               /\ last'.kind = "PlaceBid"
               /\ last'.result = "Ok"]_vars

\* C21 witness: the query answers with a bid for one lot, with none for
\* another lot and with none for an identifier without a lot.
C21_Witness ==
    /\ \E l \in DOMAIN lots : Len(BidsOf(l)) = 1
    /\ \E l \in DOMAIN lots : BidsOf(l) = <<>>
    /\ \E l \in Hashes \ DOMAIN lots : BidsOf(l) = <<>>

\* C22: the digest is the same in two successive states with the same
\* wallets, whatever became of the lots and the bids; a successful
\* CreateLot stores a lot and leaves the digest as it was.
C22_DigestOfWalletsAlone ==
    [][/\ wallets' = wallets => state_hash(Ledger)' = state_hash(Ledger)
       /\ (last'.kind = "CreateLot" /\ last'.result = "Ok")
             => (lots' # lots /\ state_hash(Ledger)' = state_hash(Ledger))]_vars

\* C22 witness: a CreateLot has just succeeded in a ledger that holds a
\* wallet with currency frozen and a lot with a bid.
C22_Witness ==
    /\ last.kind = "CreateLot"
    /\ last.result = "Ok"
    /\ \E k \in DOMAIN wallets : wallets[k].frozen > 0
    /\ \E l \in DOMAIN lots : Len(bid_history[l]) > 0

\* the lots whose bid sequence the step made one longer
Extended == {l \in DOMAIN lots : Len(bid_history'[l]) = Len(bid_history[l]) + 1}
\* of these, the lots whose active bid wallet k owned before the step, and
\* the lots whose new bid wallet k owns
SupersededOf(k) == {l \in Extended : \E b \in last_bid(Ledger, l) : b.owner = k}
PlacedBy(k) == {l \in Extended : bid_history'[l][Len(bid_history'[l])].owner = k}

NewBid(l) == bid_history'[l][Len(bid_history'[l])]

\* C24: a step leaves every bid sequence as it was, or it is a successful
\* PlaceBid on one lot that puts one bid behind the bids of that lot and
\* leaves the other sequences as they were; so no bid is removed or changed
\* and a lot with an active bid keeps having one.
C24_AppendOnly ==
    [][\/ bid_history' = bid_history
       \/ /\ last'.kind = "PlaceBid"
          /\ last'.result = "Ok"
          /\ \E l \in Extended :
                /\ bid_history'[l] = Append(bid_history[l], NewBid(l))
                /\ PlaceBid(NewBid(l).owner, l, NewBid(l).amount)
                /\ \A m \in Hashes \ {l} : bid_history'[m] = bid_history[m]]_vars

\* C24 witness: the last transaction, a PlaceBid, succeeded; one lot holds
\* two bids of one wallet and another lot holds none.
C24_Witness ==
    /\ last.kind = "PlaceBid"
    /\ last.result = "Ok"
    /\ \E l \in DOMAIN lots, m \in DOMAIN lots :
          /\ Len(bid_history[l]) = 2
          /\ bid_history[l][1].owner = bid_history[l][2].owner
          /\ bid_history[m] = <<>>

\* C26: no step removes a wallet or a lot or changes the key or the name of
\* a wallet or a field of a lot; a CreateWallet writes one new wallet and
\* nothing else, a CreateLot one new lot under its hash and nothing else,
\* and a successful PlaceBid writes the sequence of its lot, the wallet of
\* its bidder and the wallet of the bidder it supersedes and nothing else.
C26_Frame ==
    [][\/ wallets' = wallets /\ lots' = lots /\ bid_history' = bid_history
       \/ /\ DOMAIN wallets \subseteq DOMAIN wallets'
          /\ DOMAIN lots \subseteq DOMAIN lots'
          /\ \A k \in DOMAIN wallets :
                /\ wallets'[k].pub_key = wallets[k].pub_key
                /\ wallets'[k].name = wallets[k].name
          /\ \A l \in DOMAIN lots : lots'[l] = lots[l]
          /\ last'.kind = "CreateWallet"
                => /\ lots' = lots
                   /\ bid_history' = bid_history
                   /\ Cardinality(DOMAIN wallets') = Cardinality(DOMAIN wallets) + 1
                   /\ \A k \in DOMAIN wallets : wallets'[k] = wallets[k]
          /\ last'.kind = "CreateLot"
                => /\ wallets' = wallets
                   /\ bid_history' = bid_history
                   /\ DOMAIN lots' = (DOMAIN lots) \cup {last'.hash}
          /\ last'.kind = "PlaceBid"
                => /\ lots' = lots
                   /\ DOMAIN wallets' = DOMAIN wallets
                   /\ \E l \in Extended :
                         /\ PlaceBid(NewBid(l).owner, l, NewBid(l).amount)
                         /\ \A m \in Hashes \ {l} : bid_history'[m] = bid_history[m]
                         /\ \A k \in DOMAIN wallets :
                               \/ wallets'[k] = wallets[k]
                               \/ k = NewBid(l).owner
                               \/ \E b \in last_bid(Ledger, l) : k = b.owner]_vars

\* C26 witness: the last transaction, a PlaceBid, succeeded and superseded
\* the bid of another wallet on the only lot, and the wallet of the lot's
\* owner is as it was created.
C26_Witness ==
    /\ last.kind = "PlaceBid"
    /\ last.result = "Ok"
    /\ \E l \in DOMAIN lots :
          /\ Len(bid_history[l]) = 2
          /\ bid_history[l][1].owner # bid_history[l][2].owner
          /\ wallets[lots[l].owner].balance = initial_balance[lots[l].owner]
          /\ wallets[lots[l].owner].frozen = 0
          /\ wallets[bid_history[l][1].owner].balance
                = initial_balance[bid_history[l][1].owner]

\* the first check, in the order of the claim, that a PlaceBid of k on l with
\* amount a fails before its bidder's wallet is looked at, or "None"
FirstFailingCheck(k, l, a) ==
    IF l \notin DOMAIN lots THEN "LotNotFound"
    ELSE IF U64Lt(a, lots[l].min_bid) THEN "BidTooLow"
    ELSE IF lots[l].owner = k THEN "BiddingNotAllowedOnOwnLot"
    ELSE IF \E b \in last_bid(Ledger, l) : U64Leq(a, b.amount) THEN "BidTooLow"
    ELSE "None"

\* C25: a PlaceBid reports the first failing check in the order lot missing
\* (LotNotFound), amount below min_bid (BidTooLow), bidder owns the lot
\* (BiddingNotAllowedOnOwnLot), amount not above the active bid (BidTooLow),
\* whatever later checks fail with it and whether or not the bidder has a
\* wallet or funds; when these four pass, the only error it reports is
\* InsufficientCurrencyAmount, and it reports it for a bidder without wallet.
C25_ErrorPrecedence ==
    \A k \in Keys, l \in Hashes, a \in Amounts :
        LET outcome == PlaceBidOutcome(k, l, a)
        IN  IF FirstFailingCheck(k, l, a) # "None"
            THEN outcome.result = FirstFailingCheck(k, l, a)
            ELSE /\ outcome.result \in Errors
                       => outcome.result = "InsufficientCurrencyAmount"
                 /\ k \notin DOMAIN wallets
                       => outcome.result = "InsufficientCurrencyAmount"

\* C25 witness: one key has a wallet, it owns a lot without bids, and the
\* last transaction, a PlaceBid, was rejected as too low: its amount was
\* below min_bid and its bidder was the owner of the lot or had no wallet.
C25_Witness ==
    /\ Cardinality(DOMAIN wallets) = 1
    /\ DOMAIN lots # {}
    /\ \A l \in DOMAIN lots : bid_history[l] = <<>>
    /\ last.kind = "PlaceBid"
    /\ last.result = "BidTooLow"

\* C27: every lot is stored under its tx_hash and owned by a key with a
\* wallet; every bid is of a key with a wallet that does not own the lot;
\* so the owner of every active bid has a wallet, and place_bid compares
\* with the active bid and releases its owner whenever there is one.
C27_OwnersHaveWallets ==
    /\ \A l \in DOMAIN lots :
          /\ lots[l].tx_hash = l
          /\ lots[l].owner \in DOMAIN wallets
          /\ \A i \in 1..Len(bid_history[l]) :
                /\ bid_history[l][i].owner \in DOMAIN wallets
                /\ bid_history[l][i].owner # lots[l].owner
    /\ \A l \in Hashes : \A b \in last_bid(Ledger, l) : b.owner \in DOMAIN wallets

\* C27 witness: a lot holds two bids of different wallets.
C27_Witness ==
    \E l \in DOMAIN lots :
        /\ Len(bid_history[l]) = 2
        /\ bid_history[l][1].owner # bid_history[l][2].owner

\* ---------------------------------------------------------------- api claims
\* the height of the sealed block that holds caller c's transaction, as a set
BlockOf(c) == {h \in 1..Len(blocks) : c \in blocks[h]}

\* C5: a transaction submitted through post_transaction_sync and included in
\* a sealed block leads to the call returning with that block's height.
C5_SyncLiveness ==
    \A c \in Callers : (BlockOf(c) # {}) ~> (pc[c] = "done" /\ ret[c] \in BlockOf(c))

\* C6: whenever a caller's transaction has been handed to the host, the
\* caller's subscription is already registered (or the call has returned).
C6_SubscribedBeforeSubmit ==
    \A c \in Callers :
        (c \in pool \/ BlockOf(c) # {}) => (sub[c] # 0 \/ pc[c] = "done")

\* C7: a call that returned did so with the height of a sealed block that
\* holds its transaction; so a caller whose transaction is in no sealed
\* block has not returned.
C7_SyncSafety ==
    \A c \in Callers :
        pc[c] = "done" => (ret[c] \in 1..Len(blocks) /\ c \in blocks[ret[c]])

\* C7 witness: a caller returned with a height above 1 after a block without
\* its transaction had been sealed, while another caller's transaction is in
\* no block and that caller has not returned.
C7_Witness ==
    \E c \in Callers, d \in Callers :
        /\ pc[c] = "done" /\ ret[c] > 1
        /\ d # c /\ pc[d] \in {"waiting", "checking"} /\ BlockOf(d) = {}
        /\ Len(blocks) >= 2

\* C20: the after_commit call of a sealed block appends the block's height,
\* once and behind the heights sent before, to the queue of every caller
\* that holds a subscription and is blocked in recv(), whatever the other
\* callers' queues hold; the call is never held back by a queue.
C20_DeliveredToEverySubscriber ==
    [][sync_commit_callback
         => \A c \in Callers :
               (sub[c] # 0 /\ pc[c] = "waiting")
               => queue'[c] = Append(queue[c], notify)]_vars

\* C28: a wire leaves every caller that holds a subscription subscribed to
\* the PubSub in BLOCK_PS, so that the after_commit call of every block
\* sealed after the caller subscribed appends its height to the caller's
\* queue; an after_commit call before the first wire changes nothing.
C28_ConnectedAcrossWire ==
    [][/\ wire => \A c \in Callers : sub[c] # 0 => sub'[c] = BLOCK_PS'
       /\ sync_commit_callback
             => IF BLOCK_PS = 0
                THEN queue' = queue /\ pc' = pc
                ELSE \A c \in Callers :
                        sub[c] # 0 => notify \in {queue'[c][i] : i \in 1..Len(queue'[c])}]_vars

====
